---- MODULE Spec2Model ----
(***************************************************************************)
(* The deferred-expiry pipeline of the todo backend: the task table with   *)
(* its change stream (create_task, update_task, delete_task), the stream   *)
(* router (stream_router), the FIFO delivery queue, the stream processor   *)
(* (process_stream) with the EventBridge rule registry, and the expiry     *)
(* executor (expiry_handler) with its SNS notifications.                   *)
(*                                                                         *)
(* Time is counted in minutes, the granularity of the cron expression the  *)
(* processor builds.  Every handler is one action: each makes at most one  *)
(* call that changes the table, and the registry is changed by the         *)
(* processor alone.                                                        *)
(***************************************************************************)
EXTENDS Integers, Sequences, FiniteSets, TLC

\* ------------------------------------------------------------------ bounds
MaxTasks == 2
MaxTime == 2
MaxOps == 2
MaxFaults == 1
MaxFires == 2
RouterBatchMax == 2
ProcBatchMax == 2

Tasks == 1..MaxTasks
Times == 0..MaxTime
Deadlines == 1..MaxTime

\* ------------------------------------------------------------- task items
RULE_NAME_PREFIX == "TodoAppTaskExpiry"

\* get_task_details drops the attributes an image does not hold (None).
NoDeadline == -1
NoStatus == "none"
Statuses == {"Pending", "Completed", "Expired"}

\* An item of the table under the key (USER#u, TASK#t).  hasId says whether
\* the item holds the taskId and userId attributes: create_task writes them,
\* an update_item that creates the item does not.
NoItem == [exists |-> FALSE, hasId |-> FALSE, status |-> NoStatus, deadline |-> NoDeadline]

\* create_task: the item put for a new task.
NewTaskItem(d) == [exists |-> TRUE, hasId |-> TRUE, status |-> "Pending", deadline |-> d]

\* A change record of the table's stream.
NoRec == [id |-> 0, eventName |-> "NONE", key |-> 0, old |-> NoItem, new |-> NoItem]

StreamRecord(id, t, old, new) ==
    [id |-> id,
     eventName |-> IF ~old.exists THEN "INSERT" ELSE IF ~new.exists THEN "REMOVE" ELSE "MODIFY",
     key |-> t, old |-> old, new |-> new]

VARIABLES
    now,            \* the current time (minutes)
    store,          \* the task table: key -> item
    used,           \* the task ids create_task has drawn
    ops,            \* the number of CRUD requests served
    nextEvent,      \* the eventID of the next change record
    stream,         \* change records not yet checkpointed by the router's source
    dedup,          \* the deduplication ids the queue has accepted
    queue,          \* the FIFO delivery queue
    rules,          \* the EventBridge rules: a set of [name, cron, targets]
    fired,          \* how often each task's rule fired in the current minute
    inflight,       \* executor invocations delivered and not yet completed
    notifications,  \* notifications published per task by expiry_handler
    eb,             \* invocations of the processor's EventBridge branch between
                    \* their read and their write, by task and by whether the
                    \* item they read holds a description
    ebNotifications, \* notifications published per task by that branch
    handled,        \* the eventIDs of the records the processor has acted upon
    faults,         \* the failures of external calls so far
    last            \* the handler that ran last, and how it ended

vars == <<now, store, used, ops, nextEvent, stream, dedup, queue, rules, fired,
          inflight, notifications, eb, ebNotifications, handled, faults, last>>

NoLast == [op |-> "init", result |-> "none", task |-> 0, pre |-> NoStatus,
           fault |-> "none", n |-> 0, rec |-> NoRec, cmds |-> <<>>]

Min(a, b) == IF a <= b THEN a ELSE b

\* ------------------------------------------------- the trigger registry
\* schedule_expiry_event and cancel_expiry_event: the rule's name.
RuleName(task_id) == <<RULE_NAME_PREFIX, task_id>>

\* schedule_expiry_event: cron(minute hour day month ? year) of a deadline;
\* date stands for the day, month and year fields.
CronExpression(d) == [minute |-> d % 60, hour |-> (d \div 60) % 24, date |-> d \div 1440]

\* schedule_expiry_event: the target's Input.
InputData(task, t) == [taskId |-> t, key |-> t]

\* events.put_rule: creates the rule, or updates the schedule of the rule of
\* that name and keeps its targets.
PutRule(reg, name, cron) ==
    IF \E r \in reg : r.name = name
    THEN {IF r.name = name THEN [r EXCEPT !.cron = cron] ELSE r : r \in reg}
    ELSE reg \cup {[name |-> name, cron |-> cron, targets |-> {}]}

\* events.put_targets: adds the target, replacing the one of the same Id.
PutTargets(reg, name, target) ==
    {IF r.name = name
     THEN [r EXCEPT !.targets = {x \in @ : x.id # target.id} \cup {target}]
     ELSE r : r \in reg}

\* events.remove_targets with every Id list_targets_by_rule returned.
RemoveTargets(reg, name) ==
    {IF r.name = name THEN [r EXCEPT !.targets = {}] ELSE r : r \in reg}

\* events.delete_rule.
DeleteRule(reg, name) == {r \in reg : r.name # name}

\* The registry calls that may fail with an unexpected error.
RegistryCalls == {"put_rule", "put_targets", "list_targets_by_rule", "remove_targets", "delete_rule"}

\* What a step of the processor did: the registry after it, whether it
\* raised, whether the failing call was made, and the commands issued
\* (the calls of schedule_expiry_event and cancel_expiry_event, in order).
Outcome(reg, raised, hit, cmds) == [reg |-> reg, raised |-> raised, hit |-> hit, cmds |-> cmds]

\* A variant of ScheduleRuleName: a name that depends on the deadline too.
ScheduleRuleNamePerDeadline(task, t) == <<RULE_NAME_PREFIX, t, task.deadline>>

\* The rule name schedule_expiry_event puts the rule and its target under.
ScheduleRuleName(task, t) == RuleName(t)

\* A variant of DeadlinePassed: a deadline equal to the current time is
\* taken as still to come.
DeadlineBeforeNow(deadline, t_now) == deadline < t_now

\* schedule_expiry_event: whether it skips the deadline as not in the future.
DeadlinePassed(deadline, t_now) == deadline <= t_now

\* Whether schedule_expiry_event lets an error of put_rule or put_targets out.
ScheduleRaises(f) == FALSE

\* schedule_expiry_event(task): f names the registry call that fails, if any.
\* A missing deadline is a KeyError outside the try.
schedule_expiry_event(task, t, reg, t_now, f) ==
    IF task.deadline = NoDeadline THEN Outcome(reg, TRUE, FALSE, <<"schedule">>)
    ELSE IF DeadlinePassed(task.deadline, t_now) THEN Outcome(reg, FALSE, FALSE, <<"schedule">>)
    ELSE LET name == ScheduleRuleName(task, t)
             put == PutRule(reg, name, CronExpression(task.deadline))
             target == [id |-> "ExpiryLambdaTarget", input |-> InputData(task, t)]
         IN  IF f = "put_rule" THEN Outcome(reg, ScheduleRaises(f), TRUE, <<"schedule">>)
             ELSE IF f = "put_targets" THEN Outcome(put, ScheduleRaises(f), TRUE, <<"schedule">>)
             ELSE Outcome(PutTargets(put, name, target), FALSE, FALSE, <<"schedule">>)

\* Whether cancel_expiry_event lets an error other than not-found out.
CancelRaises(f) == FALSE

\* A variant of CancelNotFoundRaises: ResourceNotFoundException is not caught.
CancelNotFoundUncaught(found) == found = {}

\* cancel_expiry_event: whether it raises when the registry holds no rule of
\* the name (list_targets_by_rule raises ResourceNotFoundException, which
\* is caught and printed).
CancelNotFoundRaises(found) == FALSE

\* cancel_expiry_event(task_id).  list_targets_by_rule of a rule that does
\* not exist raises ResourceNotFoundException, which is caught.
cancel_expiry_event(task_id, reg, f) ==
    LET name == RuleName(task_id)
        found == {r \in reg : r.name = name}
    IN  IF f = "list_targets_by_rule" THEN Outcome(reg, CancelRaises(f), TRUE, <<"cancel">>)
        ELSE IF found = {} THEN Outcome(reg, CancelNotFoundRaises(found), FALSE, <<"cancel">>)
        ELSE IF f = "remove_targets" /\ \E r \in found : r.targets # {}
             THEN Outcome(reg, CancelRaises(f), TRUE, <<"cancel">>)
        ELSE IF f = "delete_rule"
             THEN Outcome(RemoveTargets(reg, name), CancelRaises(f), TRUE, <<"cancel">>)
        ELSE Outcome(DeleteRule(RemoveTargets(reg, name), name), FALSE, FALSE, <<"cancel">>)

\* The Modify branch of two Pending images whose deadlines differ: cancel,
\* then schedule.
Reschedule(task, t, reg, t_now, f) ==
    LET c == cancel_expiry_event(t, reg, f)
    IN  IF c.raised THEN c
        ELSE LET s == schedule_expiry_event(task, t, c.reg, t_now, f)
             IN  Outcome(s.reg, s.raised, c.hit \/ s.hit, c.cmds \o s.cmds)

\* Whether the handler cancels the trigger of a removed task.
RemoveCancels(task) == TRUE

\* A variant of InsertSchedules: whatever the status of the new image.
InsertSchedulesAnyStatus(task) == TRUE

\* Whether the handler schedules a trigger for an inserted task.
InsertSchedules(task) == task.status = "Pending"

\* A variant of StatusCancels: the old status is not looked at.
StatusCancelsAnyOld(old_status, new_status) == new_status \in {"Completed", "Expired"}

\* Whether the handler takes a Modify record as the end of a Pending task.
StatusCancels(old_status, new_status) ==
    old_status = "Pending" /\ new_status \in {"Completed", "Expired"}

\* process_stream.handler, one record of the queue branch.  A task image
\* without taskId is a KeyError, which the handler re-raises.
ProcessRecord(rec, reg, t_now, f) ==
    LET task == IF rec.eventName = "REMOVE" THEN rec.old ELSE rec.new
        old_task == rec.old
        t == rec.key
    IN  IF ~task.hasId THEN Outcome(reg, TRUE, FALSE, <<>>)
        ELSE IF rec.eventName = "INSERT"
        THEN IF InsertSchedules(task)
             THEN schedule_expiry_event(task, t, reg, t_now, f)
             ELSE Outcome(reg, FALSE, FALSE, <<>>)
        ELSE IF rec.eventName = "MODIFY"
        THEN IF StatusCancels(old_task.status, task.status)
             THEN cancel_expiry_event(t, reg, f)
             ELSE IF task.status = "Pending" /\ old_task.status = "Pending"
                     /\ old_task.deadline # NoDeadline /\ task.deadline # NoDeadline
                     /\ old_task.deadline # task.deadline
             THEN Reschedule(task, t, reg, t_now, f)
             ELSE Outcome(reg, FALSE, FALSE, <<>>)
        ELSE IF RemoveCancels(task) THEN cancel_expiry_event(t, reg, f)
             ELSE Outcome(reg, FALSE, FALSE, <<>>)

\* process_stream.handler, the loop over the batch: the first record that
\* raises ends the invocation, what the records before it did stays done.
RECURSIVE ProcessRecords(_, _, _, _)
ProcessRecords(recs, reg, t_now, f) ==
    IF recs = <<>> THEN Outcome(reg, FALSE, FALSE, <<>>)
    ELSE LET r == ProcessRecord(Head(recs), reg, t_now, f)
         IN  IF r.raised THEN r
             ELSE LET rest == ProcessRecords(Tail(recs), r.reg, t_now,
                                             IF r.hit THEN "none" ELSE f)
                  IN  Outcome(rest.reg, rest.raised, r.hit \/ rest.hit, r.cmds \o rest.cmds)

\* ------------------------------------------------------------ the state
Init ==
    /\ now = 0
    /\ store = [t \in Tasks |-> NoItem]
    /\ used = {}
    /\ ops = 0
    /\ nextEvent = 1
    /\ stream = <<>>
    /\ dedup = {}
    /\ queue = <<>>
    /\ rules = {}
    /\ fired = [t \in Tasks |-> 0]
    /\ inflight = [t \in Tasks |-> 0]
    /\ notifications = [t \in Tasks |-> 0]
    /\ eb = [t \in Tasks |-> [d \in BOOLEAN |-> 0]]
    /\ ebNotifications = [t \in Tasks |-> 0]
    /\ handled = {}
    /\ faults = 0
    /\ last = NoLast

\* The table writes item new under key t: the stream gets a record when the
\* item changed.
Write(t, new) ==
    /\ store' = [store EXCEPT ![t] = new]
    /\ IF new = store[t]
       THEN UNCHANGED <<stream, nextEvent>>
       ELSE /\ stream' = Append(stream, StreamRecord(nextEvent, t, store[t], new))
            /\ nextEvent' = nextEvent + 1

\* ------------------------------------------------------ the CRUD handlers
\* create_task.handler: uuid4 draws an id no request has named.
CreateTask(d) ==
    /\ ops < MaxOps
    /\ Tasks \ used # {}
    /\ LET t == CHOOSE x \in Tasks \ used : \A y \in Tasks \ used : x <= y
       IN  /\ Write(t, NewTaskItem(d))
           /\ used' = used \cup {t}
           /\ last' = [NoLast EXCEPT !.op = "create", !.result = "201", !.task = t]
    /\ ops' = ops + 1
    /\ UNCHANGED <<now, dedup, queue, rules, fired, inflight, notifications, faults,
                   eb, ebNotifications, handled>>

\* update_task.handler: the condition of its update_item on the stored item.
UpdateCondition(item, body) == TRUE

\* update_task.handler: the item after SET of the fields the body holds;
\* update_item creates the item when the key holds none.  The description
\* is not carried: no handler decides anything on it.
UpdatedItem(item, body) ==
    [exists |-> TRUE,
     hasId |-> item.hasId,
     status |-> IF body.status # NoStatus THEN body.status ELSE item.status,
     deadline |-> IF body.deadline # NoDeadline THEN body.deadline ELSE item.deadline]

UpdateBodies ==
    {b \in [status : Statuses \cup {NoStatus}, deadline : Deadlines \cup {NoDeadline}] :
        b.status # NoStatus \/ b.deadline # NoDeadline}

UpdateTask(t, body) ==
    /\ ops < MaxOps
    /\ IF UpdateCondition(store[t], body)
       THEN /\ Write(t, UpdatedItem(store[t], body))
            /\ last' = [NoLast EXCEPT !.op = "update", !.result = "200", !.task = t,
                                      !.pre = store[t].status]
       ELSE /\ UNCHANGED <<store, stream, nextEvent>>
            /\ last' = [NoLast EXCEPT !.op = "update", !.result = "500", !.task = t,
                                      !.pre = store[t].status]
    /\ used' = used \cup {t}
    /\ ops' = ops + 1
    /\ UNCHANGED <<now, dedup, queue, rules, fired, inflight, notifications, faults,
                   eb, ebNotifications, handled>>

\* delete_task.handler: delete_item under the condition SK = TASK#t, which
\* fails when the key holds no item.
DeleteTask(t) ==
    /\ ops < MaxOps
    /\ IF store[t].exists
       THEN /\ Write(t, NoItem)
            /\ last' = [NoLast EXCEPT !.op = "delete", !.result = "204", !.task = t,
                                      !.pre = store[t].status]
       ELSE /\ UNCHANGED <<store, stream, nextEvent>>
            /\ last' = [NoLast EXCEPT !.op = "delete", !.result = "500", !.task = t]
    /\ used' = used \cup {t}
    /\ ops' = ops + 1
    /\ UNCHANGED <<now, dedup, queue, rules, fired, inflight, notifications, faults,
                   eb, ebNotifications, handled>>

\* ------------------------------------------------------ the stream router
\* A variant of RouterRaises: the Failed list of the response is not read.
RouterIgnoresFailed(failed) == FALSE

\* stream_router.handler: whether it raises, given the entries of the batch
\* that send_message_batch reported in Failed.
RouterRaises(failed) == failed # {}

\* stream_router.handler: the entry of send_message_batch it builds for a
\* record.  The body is the JSON text of the whole record, which the
\* processor parses back; every entry names the same message group, so
\* the queue is one ordered sequence.
SqsEntry(record) ==
    [Id |-> record.id,
     MessageBody |-> record,
     MessageDeduplicationId |-> record.id,
     MessageGroupId |-> "TaskProcessingGroup"]

\* The queue after it accepted the entries of the batch at the indices
\* accepted: an entry whose deduplication id it has seen is dropped.
RECURSIVE Enqueue(_, _, _, _)
Enqueue(q, seen, batch, accepted) ==
    IF batch = <<>> THEN q
    ELSE LET m == SqsEntry(Head(batch))
             rest == {i - 1 : i \in accepted \ {1}}
         IN  IF 1 \in accepted /\ m.MessageDeduplicationId \notin seen
             THEN Enqueue(Append(q, m.MessageBody), seen \cup {m.MessageDeduplicationId},
                          Tail(batch), rest)
             ELSE Enqueue(q, seen, Tail(batch), rest)

\* stream_router.handler on the first n records of the stream; the queue
\* accepts the entries at the indices accepted and fails the others.
Router(n, accepted) ==
    /\ n \in 1..Min(RouterBatchMax, Len(stream))
    /\ accepted \subseteq 1..n
    /\ LET batch == SubSeq(stream, 1, n)
           failed == (1..n) \ accepted
           raised == RouterRaises(failed)
       IN  /\ failed # {} => faults < MaxFaults
           /\ faults' = IF failed # {} THEN faults + 1 ELSE faults
           /\ queue' = Enqueue(queue, dedup, batch, accepted)
           /\ dedup' = dedup \cup {SqsEntry(batch[i]).MessageDeduplicationId : i \in accepted}
           /\ stream' = IF raised THEN stream ELSE SubSeq(stream, n + 1, Len(stream))
           /\ last' = [NoLast EXCEPT !.op = "route", !.n = n,
                                     !.result = IF raised THEN "raise" ELSE "200",
                                     !.fault = IF failed # {} THEN "send_message_batch" ELSE "none"]
    /\ UNCHANGED <<now, store, used, ops, nextEvent, rules, fired, inflight, notifications,
                   eb, ebNotifications, handled>>

\* --------------------------------------------------- the stream processor
\* process_stream.handler on the first n messages of the queue (its queue
\* branch); f names the registry call that fails during it, if any.
Processor(n, f) ==
    /\ n \in 1..Min(ProcBatchMax, Len(queue))
    /\ LET res == ProcessRecords(SubSeq(queue, 1, n), rules, now, f)
       IN  /\ f # "none" => faults < MaxFaults /\ res.hit
           /\ faults' = IF res.hit THEN faults + 1 ELSE faults
           /\ rules' = res.reg
           /\ queue' = IF res.raised THEN queue ELSE SubSeq(queue, n + 1, Len(queue))
           /\ last' = [NoLast EXCEPT !.op = "process", !.n = n, !.fault = f,
                                     !.result = IF res.raised THEN "raise" ELSE "200",
                                     !.rec = queue[n], !.cmds = res.cmds,
                                     !.pre = IF \E r \in rules : r.name = RuleName(queue[n].key)
                                             THEN "rule" ELSE "no rule"]
           /\ handled' = handled \cup
                  {queue[i].id : i \in {j \in 1..n :
                      ~ProcessRecords(SubSeq(queue, 1, j), rules, now, f).raised}}
    /\ UNCHANGED <<now, store, used, ops, nextEvent, stream, dedup, fired, inflight,
                   notifications,
                   eb, ebNotifications>>

\* ------------------------------------------------------------ EventBridge
\* A rule fires when its cron expression matches the current minute, and
\* invokes each target with its Input; delivery is at least once.
Fire(r, tg) ==
    /\ r \in rules
    /\ tg \in r.targets
    /\ r.cron = CronExpression(now)
    /\ fired[tg.input.taskId] < MaxFires
    /\ fired' = [fired EXCEPT ![tg.input.taskId] = @ + 1]
    /\ inflight' = [inflight EXCEPT ![tg.input.taskId] = @ + 1]
    /\ last' = [NoLast EXCEPT !.op = "fire", !.task = tg.input.taskId]
    /\ UNCHANGED <<now, store, used, ops, nextEvent, stream, dedup, queue, rules,
                   notifications, faults,
                   eb, ebNotifications, handled>>

\* A minute passes, once every rule due in it has fired.
Tick ==
    /\ now < MaxTime
    /\ \A r \in rules : \A tg \in r.targets :
          r.cron = CronExpression(now) => fired[tg.input.taskId] > 0
    /\ now' = now + 1
    /\ fired' = [t \in Tasks |-> 0]
    /\ last' = [NoLast EXCEPT !.op = "tick"]
    /\ UNCHANGED <<store, used, ops, nextEvent, stream, dedup, queue, rules, inflight,
                   notifications, faults,
                   eb, ebNotifications, handled>>

\* ------------------------------------------------------ the expiry executor
\* A variant of ExpiryCondition: the item exists, whatever its status.
ExpiryConditionAnyStatus(item) == item.exists

\* expiry_handler.handler: the ConditionExpression of its update_item.
ExpiryCondition(item) == item.exists /\ item.status = "Pending"

\* expiry_handler.handler: SET status = Expired.
ExpiredItem(item) == [item EXCEPT !.status = "Expired"]

\* expiry_handler.handler for the payload of task t; f names the call that
\* fails, if any.  A raised invocation is retried by the trigger mechanism.
ExpiryHandler(t, f) ==
    /\ inflight[t] > 0
    /\ f \in {"none", "update_item", "publish"}
    /\ f # "none" => faults < MaxFaults
    /\ f = "publish" => ExpiryCondition(store[t])
    /\ faults' = IF f # "none" THEN faults + 1 ELSE faults
    /\ IF f # "update_item" /\ ExpiryCondition(store[t])
       THEN Write(t, ExpiredItem(store[t]))
       ELSE UNCHANGED <<store, stream, nextEvent>>
    /\ notifications' = IF f = "none" /\ ExpiryCondition(store[t])
                        THEN [notifications EXCEPT ![t] = @ + 1] ELSE notifications
    /\ inflight' = IF f = "none" THEN [inflight EXCEPT ![t] = @ - 1] ELSE inflight
    /\ last' = [NoLast EXCEPT !.op = "expire", !.task = t, !.fault = f,
                              !.pre = IF store[t].exists THEN store[t].status ELSE "absent",
                              !.result = IF f = "none" THEN "200" ELSE "raise"]
    /\ UNCHANGED <<now, used, ops, dedup, queue, rules, fired,
                   eb, ebNotifications, handled>>

\* ------------------------------------ the processor's EventBridge branch
\* process_stream.handler takes an event whose source is aws.events as the
\* firing of an expiry rule and calls expire_and_notify_task on its
\* payload.  Which function a rule invokes is the deployment's
\* EXPIRY_HANDLER_ARN, so a delivered invocation is taken either by
\* expiry_handler.handler or by this branch.

\* expire_and_notify_task: SET status = Expired with no condition;
\* update_item creates the item when the key holds none.
EbExpiredItem(item) == [item EXCEPT !.exists = TRUE, !.status = "Expired"]

\* expire_and_notify_task, its get_item and the decision on the item read;
\* f names the call that fails, if any.  An item create_task wrote holds a
\* description; an item update_task created may or may not (desc).  Every
\* exception is caught and printed, and the handler returns 200.
EbRead(t, f, desc) ==
    /\ inflight[t] > 0
    /\ f \in {"none", "get_item"}
    /\ f # "none" => faults < MaxFaults
    /\ store[t].hasId => desc
    /\ faults' = IF f # "none" THEN faults + 1 ELSE faults
    /\ inflight' = [inflight EXCEPT ![t] = @ - 1]
    /\ LET proceeds == f = "none" /\ store[t].exists /\ store[t].status = "Pending"
       IN  /\ eb' = IF proceeds THEN [eb EXCEPT ![t][desc] = @ + 1] ELSE eb
           /\ last' = [NoLast EXCEPT !.op = "eb_read", !.task = t, !.fault = f,
                                     !.pre = IF store[t].exists THEN store[t].status
                                             ELSE "absent",
                                     !.result = IF proceeds THEN "reading" ELSE "200"]
    /\ UNCHANGED <<now, store, used, ops, nextEvent, stream, dedup, queue, rules, fired,
                   notifications, ebNotifications, handled>>

\* expire_and_notify_task, its update_item and its publish, for an
\* invocation that read a Pending item.  The Subject of the notification
\* indexes the description of the item read, so an item without one is
\* expired and nothing is published.
EbWrite(t, desc, f) ==
    /\ eb[t][desc] > 0
    /\ f \in {"none", "update_item", "publish"}
    /\ f # "none" => faults < MaxFaults
    /\ f = "publish" => desc
    /\ faults' = IF f # "none" THEN faults + 1 ELSE faults
    /\ eb' = [eb EXCEPT ![t][desc] = @ - 1]
    /\ IF f # "update_item"
       THEN Write(t, EbExpiredItem(store[t]))
       ELSE UNCHANGED <<store, stream, nextEvent>>
    /\ ebNotifications' = IF f = "none" /\ desc
                          THEN [ebNotifications EXCEPT ![t] = @ + 1] ELSE ebNotifications
    /\ last' = [NoLast EXCEPT !.op = "eb_write", !.task = t, !.fault = f,
                              !.pre = IF store[t].exists THEN store[t].status ELSE "absent",
                              !.result = "200"]
    /\ UNCHANGED <<now, used, ops, dedup, queue, rules, fired, inflight, notifications, handled>>

\* ----------------------------------------------------------- the system
Next ==
    \/ \E d \in Deadlines : CreateTask(d)
    \/ \E t \in Tasks, body \in UpdateBodies : UpdateTask(t, body)
    \/ \E t \in Tasks : DeleteTask(t)
    \/ \E n \in 1..RouterBatchMax : \E accepted \in SUBSET (1..n) : Router(n, accepted)
    \/ \E n \in 1..ProcBatchMax, f \in RegistryCalls \cup {"none"} : Processor(n, f)
    \/ \E r \in rules : \E tg \in r.targets : Fire(r, tg)
    \/ Tick
    \/ \E t \in Tasks, f \in {"none", "update_item", "publish"} : ExpiryHandler(t, f)
    \/ \E t \in Tasks, f \in {"none", "get_item"}, desc \in BOOLEAN : EbRead(t, f, desc)
    \/ \E t \in Tasks, desc \in BOOLEAN, f \in {"none", "update_item", "publish"} :
          EbWrite(t, desc, f)

Spec == Init /\ [][Next]_vars

\* The deliveries the transports guarantee: the stream source and the queue
\* redeliver until the handler returns, EventBridge fires a due rule, a
\* raised executor invocation is retried, and time passes.  The CRUD
\* requests are the user's and are not fair.
FairSpec ==
    /\ Spec
    /\ WF_vars(\E n \in 1..RouterBatchMax : \E accepted \in SUBSET (1..n) : Router(n, accepted))
    /\ WF_vars(\E n \in 1..ProcBatchMax, f \in RegistryCalls \cup {"none"} : Processor(n, f))
    /\ WF_vars(\E r \in rules : \E tg \in r.targets : Fire(r, tg))
    /\ WF_vars(\E t \in Tasks, f \in {"none", "update_item", "publish"} : ExpiryHandler(t, f))
    /\ WF_vars(\E t \in Tasks, f \in {"none", "get_item"}, desc \in BOOLEAN : EbRead(t, f, desc))
    /\ WF_vars(\E t \in Tasks, desc \in BOOLEAN, f \in {"none", "update_item", "publish"} :
                  EbWrite(t, desc, f))
    /\ WF_vars(Tick)

\* ------------------------------------------- the processor's decision table
\* The handler's queue branch as a function of one record, the registry and
\* the clock: a second specification that starts with one message in the
\* queue and runs the handler on it.

\* The images of a task item as create_task writes it and update_task
\* changes it.
TaskImages ==
    {[exists |-> TRUE, hasId |-> TRUE, status |-> st, deadline |-> d] :
        st \in Statuses, d \in Deadlines}

\* The change records of such items; a Modify record whose images agree
\* in status and deadline is that of a changed description.
TableRecords ==
    {StreamRecord(1, t, old, new) :
        t \in Tasks, old \in TaskImages \cup {NoItem}, new \in TaskImages \cup {NoItem}}
    \ {StreamRecord(1, t, NoItem, NoItem) : t \in Tasks}

\* The rules schedule_expiry_event leaves for a task, with their target or,
\* after a failed put_targets, without it.
TableRules ==
    {[name |-> RuleName(t), cron |-> CronExpression(d),
      targets |-> IF targeted
                  THEN {[id |-> "ExpiryLambdaTarget", input |-> InputData(NoItem, t)]}
                  ELSE {}] :
        t \in Tasks, d \in Deadlines, targeted \in BOOLEAN}

\* The registries: at most one rule of a name.
TableRegistries ==
    {reg \in SUBSET TableRules : \A r1, r2 \in reg : r1.name = r2.name => r1 = r2}

TableInit ==
    /\ now \in Times
    /\ store = [t \in Tasks |-> NoItem]
    /\ used = {}
    /\ ops = 0
    /\ nextEvent = 2
    /\ stream = <<>>
    /\ dedup = {1}
    /\ queue \in {<<rec>> : rec \in TableRecords}
    /\ rules \in TableRegistries
    /\ fired = [t \in Tasks |-> 0]
    /\ inflight = [t \in Tasks |-> 0]
    /\ notifications = [t \in Tasks |-> 0]
    /\ eb = [t \in Tasks |-> [d \in BOOLEAN |-> 0]]
    /\ ebNotifications = [t \in Tasks |-> 0]
    /\ handled = {}
    /\ faults = 0
    /\ last = NoLast

TableNext == \E f \in RegistryCalls \cup {"none"} : Processor(1, f)

TableSpec == TableInit /\ [][TableNext]_vars

\* ------------------------------------------------------------ redelivery
\* The queue redelivers a batch the handler raised on.  A third
\* specification starts with two messages in the queue, a record of a task
\* and behind it the Insert record of an item update_task created under an
\* unknown task id, on which the handler raises; the handler runs on the
\* batch and on the redelivered messages while time passes.
BadRecord ==
    StreamRecord(2, 1, NoItem,
                 [exists |-> TRUE, hasId |-> FALSE, status |-> NoStatus, deadline |-> 1])

RedeliveryInit ==
    /\ now \in Times
    /\ store = [t \in Tasks |-> NoItem]
    /\ used = {}
    /\ ops = 0
    /\ nextEvent = 3
    /\ stream = <<>>
    /\ dedup = {1, 2}
    /\ queue \in {<<rec, BadRecord>> : rec \in TableRecords}
    /\ rules \in TableRegistries
    /\ fired = [t \in Tasks |-> 0]
    /\ inflight = [t \in Tasks |-> 0]
    /\ notifications = [t \in Tasks |-> 0]
    /\ eb = [t \in Tasks |-> [d \in BOOLEAN |-> 0]]
    /\ ebNotifications = [t \in Tasks |-> 0]
    /\ handled = {}
    /\ faults = 0
    /\ last = NoLast

RedeliveryNext ==
    \/ \E n \in 1..ProcBatchMax, f \in RegistryCalls \cup {"none"} : Processor(n, f)
    \/ Tick

RedeliverySpec == RedeliveryInit /\ [][RedeliveryNext]_vars

\* ------------------------------------------------------ executor payloads
\* A rule's Input always holds the four fields (InputData), so the events
\* above are complete.  Both entry points also take any other event: a
\* fourth specification starts from any table and invokes them with every
\* payload, complete or not.
ExpiryPayloadFields == {"taskId", "userId", "pk", "sk"}

\* A variant of PayloadComplete: only the key of the task is asked for.
PayloadHasKey(payload) == {"pk", "sk"} \subseteq payload

\* Both entry points: all([task_id, user_id, pk, sk]).
PayloadComplete(payload) == ExpiryPayloadFields \subseteq payload

\* The handler returned 400 and nothing else happened.
Rejected(op) ==
    /\ last' = [NoLast EXCEPT !.op = op, !.result = "400"]
    /\ UNCHANGED <<now, store, used, ops, nextEvent, stream, dedup, queue, rules, fired,
                   inflight, notifications, eb, ebNotifications, handled, faults>>

\* expiry_handler.handler on an event holding the fields payload, those
\* present naming task t.
ExpiryHandlerEvent(payload, t, f) ==
    IF PayloadComplete(payload)
    THEN ExpiryHandler(t, f)
    ELSE f = "none" /\ Rejected("expire")

\* process_stream.handler on an aws.events event holding the fields payload.
EbEvent(payload, t, f, desc) ==
    IF PayloadComplete(payload)
    THEN EbRead(t, f, desc)
    ELSE f = "none" /\ desc /\ Rejected("eb_read")

PayloadInit ==
    /\ now = 0
    /\ store \in [Tasks -> TaskImages \cup {NoItem}]
    /\ used = {}
    /\ ops = 0
    /\ nextEvent = 1
    /\ stream = <<>>
    /\ dedup = {}
    /\ queue = <<>>
    /\ rules = {}
    /\ fired = [t \in Tasks |-> 0]
    /\ inflight \in [Tasks -> {0, 1}]
    /\ notifications = [t \in Tasks |-> 0]
    /\ eb = [t \in Tasks |-> [d \in BOOLEAN |-> 0]]
    /\ ebNotifications = [t \in Tasks |-> 0]
    /\ handled = {}
    /\ faults = 0
    /\ last = NoLast

PayloadNext ==
    \/ \E payload \in SUBSET ExpiryPayloadFields, t \in Tasks,
           f \in {"none", "update_item", "publish"} : ExpiryHandlerEvent(payload, t, f)
    \/ \E payload \in SUBSET ExpiryPayloadFields, t \in Tasks,
           f \in {"none", "get_item"}, desc \in BOOLEAN : EbEvent(payload, t, f, desc)
    \/ \E t \in Tasks, desc \in BOOLEAN, f \in {"none", "update_item", "publish"} :
          EbWrite(t, desc, f)

PayloadSpec == PayloadInit /\ [][PayloadNext]_vars

\* ------------------------------------------------------------ the claims
IsPending(item) == item.exists /\ item.status = "Pending"

\* The rules of the registry that belong to task t, by name or by payload.
RulesOf(t) == {r \in rules : r.name = RuleName(t) \/ \E tg \in r.targets : tg.input.taskId = t}

\* The live triggers of task t: its rules that hold a target to invoke.
LiveTriggers(t) == {r \in RulesOf(t) : r.targets # {}}

\* The processor returned from a batch whose last record is a record of
\* event e.
Acked(e) == last.op = "process" /\ last.result = "200" /\ last.rec.eventName = e

\* C1: an invocation of expiry_handler.handler writes a task only when its
\* stored status is Pending at that instant, and the write sets Expired; when
\* the stored task is Completed, Expired or absent and no call fails, the
\* invocation leaves the table and its stream as they are, publishes no
\* notification and returns 200.
C1_ExpiryOnlyFromPending ==
    [][\A t \in Tasks :
        (last'.op = "expire" /\ last'.task = t) =>
            /\ \A u \in Tasks \ {t} : store'[u] = store[u]
            /\ store'[t] # store[t] =>
                  /\ store[t].exists /\ store[t].status = "Pending"
                  /\ store'[t] = [store[t] EXCEPT !.status = "Expired"]
            /\ (last'.fault = "none" /\ ~(store[t].exists /\ store[t].status = "Pending")) =>
                  /\ store' = store
                  /\ stream' = stream
                  /\ notifications' = notifications
                  /\ last'.result = "200"]_vars

\* C1, its case: the executor ran for a task the user had completed, and
\* returned 200 with the task still Completed.
C1_Witness ==
    /\ last.op = "expire" /\ last.pre = "Completed" /\ last.result = "200"
    /\ store[last.task].status = "Completed"
    /\ notifications[last.task] = 0

\* C2: however often the executor is fired for a task, at most one expiry
\* notification is published for it.
C2_AtMostOneNotification == \A t \in Tasks : notifications[t] <= 1

\* C3: once the Insert record of the first task, Pending with a deadline in
\* the future, is processed, the task does not stay as inserted for ever:
\* it expires, unless the user changes or deletes it.
C3_EventuallyExpired ==
    \A t \in Tasks, d \in Deadlines :
        (/\ Acked("INSERT") /\ last.rec.key = t /\ last.rec.new = NewTaskItem(d)
         /\ d > now /\ nextEvent = 2 /\ store[t] = NewTaskItem(d))
        ~> (store[t] # NewTaskItem(d))

\* Nothing is on its way: no change record waits in the stream or the
\* queue, no executor invocation is in flight, and no rule is due.
Quiescent ==
    /\ stream = <<>> /\ queue = <<>>
    /\ \A t \in Tasks : inflight[t] = 0
    /\ \A r \in rules : r.targets # {} => r.cron # CronExpression(now)

\* C4: when nothing is on its way, a task has a live trigger if and only if
\* it is stored Pending with a deadline in the future.
C4_TriggerIffPendingFuture ==
    Quiescent =>
        \A t \in Tasks :
            LiveTriggers(t) # {} <=> (IsPending(store[t]) /\ store[t].deadline > now)

\* C5: the registry holds at most one rule per task, and that rule at most
\* one target.
C5_OneTriggerPerTask ==
    \A t \in Tasks :
        /\ Cardinality(RulesOf(t)) <= 1
        /\ \A r \in RulesOf(t) : Cardinality(r.targets) <= 1

\* C5, its case: a task's deadline was moved, the processor rescheduled it,
\* and the registry holds the one rule of the new deadline.
C5_Witness ==
    /\ Acked("MODIFY")
    /\ last.rec.old.status = "Pending" /\ last.rec.new.status = "Pending"
    /\ last.rec.old.deadline # last.rec.new.deadline
    /\ \E r \in rules :
          /\ RulesOf(last.rec.key) = {r}
          /\ r.cron = CronExpression(last.rec.new.deadline)
          /\ r.targets # {}

\* C6: after the processor returned from a Modify record that moved the
\* deadline of a Pending task to a time in the future, the registry holds
\* exactly one live trigger for the task, due at the new deadline, whether
\* or not a registry call failed on the way.
C6_RescheduledExactlyOne ==
    (/\ Acked("MODIFY")
     /\ last.rec.old.status = "Pending" /\ last.rec.new.status = "Pending"
     /\ last.rec.old.deadline # last.rec.new.deadline
     /\ last.rec.new.deadline > now)
    => \E r \in rules :
          /\ LiveTriggers(last.rec.key) = {r}
          /\ RulesOf(last.rec.key) = {r}
          /\ r.cron = CronExpression(last.rec.new.deadline)

\* C7: after the processor returned from a Remove record, or from a Modify
\* record that took a task from Pending to Completed or Expired, the task
\* has no live trigger, whether or not a registry call failed on the way.
C7_CancelledNoTrigger ==
    (\/ Acked("REMOVE")
     \/ /\ Acked("MODIFY")
        /\ last.rec.old.status = "Pending"
        /\ last.rec.new.status \in {"Completed", "Expired"})
    => LiveTriggers(last.rec.key) = {}

\* C8: a stored task whose status is Completed or Expired keeps that status
\* for as long as it is stored.
C8_TerminalStatusStays ==
    [][\A t \in Tasks :
        (store[t].exists /\ store[t].status \in {"Completed", "Expired"} /\ store'[t].exists)
            => store'[t].status = store[t].status]_vars

\* C9: a processor invocation during which a registry call failed does not
\* return: it raises, so that the queue redelivers the batch.
C9_RegistryFailureRaises ==
    (last.op = "process" /\ last.fault \in RegistryCalls) => last.result = "raise"

\* The ids of the change records the table has emitted.
Emitted == 1..(nextEvent - 1)

\* C10: every change record emitted is still in the stream or was accepted
\* by the queue; the router returns 200 only when the queue accepted every
\* record of the batch, each record the queue newly accepts is enqueued, and
\* a batch with a failed entry stays in the stream.
C10_RouterLosesNothing ==
    /\ [](\A id \in Emitted : id \in dedup \/ \E i \in 1..Len(stream) : stream[i].id = id)
    /\ [][last'.op = "route" =>
            /\ last'.result = "200" => \A i \in 1..last'.n : stream[i].id \in dedup'
            /\ \A id \in dedup' \ dedup : \E i \in 1..Len(queue') : queue'[i].id = id
            /\ last'.fault # "none" => last'.result = "raise" /\ stream' = stream]_vars

\* C10, its case: the queue failed an entry of a batch, the router raised,
\* and the failed record is still in the stream.
C10_Witness ==
    /\ last.op = "route" /\ last.fault = "send_message_batch" /\ last.result = "raise"
    /\ \E i \in 1..Len(stream) : stream[i].id \notin dedup

\* The records of the queue's first n messages that step of the processor
\* handled with a record of the same task committed before them still
\* waiting: behind them in the queue, or on the stream and not yet accepted
\* by the queue.
Overtaken(n) ==
    {i \in 1..n :
        \/ \E j \in 1..Len(queue) :
              j > i /\ queue[j].key = queue[i].key /\ queue[j].id < queue[i].id
        \/ \E j \in 1..Len(stream) :
              /\ stream[j].key = queue[i].key
              /\ stream[j].id < queue[i].id
              /\ stream[j].id \notin dedup}

\* C11: the processor handles the change records of a task in the order
\* they were committed, also when the queue accepted only a part of a
\* router batch, the batch was redelivered and the accepted records were
\* dropped as duplicates: no batch it returns from holds a record that
\* overtook an earlier record of the same task.
C11_CommitOrder ==
    [][(last'.op = "process" /\ last'.result = "200") => Overtaken(last'.n) = {}]_vars

\* The processor ran on one record, no call failed, the record asked for a
\* cancellation only, and the registry held no rule of the record's task.
CancelOfNothing(l) ==
    /\ l.op = "process" /\ l.n = 1 /\ l.fault = "none"
    /\ l.cmds = <<"cancel">>
    /\ l.pre = "no rule"

\* C12: cancel_expiry_event for a task that has no trigger returns
\* normally and leaves the registry as it was, and the record that caused
\* it is processed successfully: the handler returns 200 and the message
\* leaves the queue.
C12_CancelOfNothingIsNoOp ==
    [][CancelOfNothing(last') =>
          /\ rules' = rules
          /\ last'.result = "200"
          /\ queue' = Tail(queue)]_vars

C12_Witness == CancelOfNothing(last) /\ last.result = "200"

\* C13: the write of update_task.handler is conditional on the stored
\* task, as the write of the expiry executor is: a user update of a task
\* whose stored status is Expired leaves the status Expired, and an update
\* addressed to a key that holds no task (a deleted task) writes no record.
C13_UpdateIsConditional ==
    [][\A t \in Tasks :
        (last'.op = "update" /\ last'.task = t) =>
            /\ ~store[t].exists => ~store'[t].exists
            /\ (store[t].exists /\ store[t].status = "Expired") =>
                   (store'[t].exists /\ store'[t].status = "Expired")]_vars

\* C14: no invocation of process_stream.handler, on its queue branch or
\* on its EventBridge branch, and no invocation of expiry_handler.handler
\* creates a task record: a key that holds no task before a step of theirs
\* holds none after it, also when the task was deleted between the firing
\* of its trigger and the write.
C14_ExpiryCreatesNoTask ==
    [][last'.op \in {"process", "expire", "eb_read", "eb_write"} =>
          \A t \in Tasks : ~store[t].exists => ~store'[t].exists]_vars

\* C15: when the conditional update of expiry_handler.handler succeeds and
\* the publish of the notification fails, the task remains Expired and the
\* invocation completes successfully: the failure is logged and no error
\* reaches the caller.
C15_PublishFailureIsSwallowed ==
    [][\A t \in Tasks :
        (last'.op = "expire" /\ last'.task = t /\ last'.fault = "publish") =>
            /\ store'[t].exists /\ store'[t].status = "Expired"
            /\ last'.result = "200"]_vars

\* C16: when the store update fails transiently, the invocation raises,
\* the stored task is left as it was and no notification is published;
\* for expiry_handler.handler and for the EventBridge branch of
\* process_stream.handler.
C16_UpdateFailureRaises ==
    [][\A t \in Tasks :
        (last'.op \in {"expire", "eb_write"} /\ last'.task = t /\ last'.fault = "update_item") =>
            /\ last'.result = "raise"
            /\ store' = store
            /\ notifications' = notifications
            /\ ebNotifications' = ebNotifications]_vars

\* A change record whose task image (the old image of a Remove, the new
\* image otherwise) lacks the task id or the status.
Malformed(rec) ==
    LET task == IF rec.eventName = "REMOVE" THEN rec.old ELSE rec.new
    IN  ~task.hasId \/ task.status = NoStatus

\* C17: a malformed change record is logged and dropped without retry: a
\* batch that holds one does not make the handler raise, the record leaves
\* the queue with the batch, and the other records of the batch are still
\* processed.
C17_MalformedRecordIsDropped ==
    [][(last'.op = "process" /\ \E i \in 1..last'.n : Malformed(queue[i])) =>
          /\ last'.result = "200"
          /\ queue' = SubSeq(queue, last'.n + 1, Len(queue))]_vars

\* C18: under every interleaving of the EventBridge branch of
\* process_stream.handler (a read of the task, then a write) with a user
\* completion, a deletion or a second firing of the same trigger, a task
\* whose stored status is Completed is never overwritten with Expired, and
\* two firings never both publish a notification.
C18_EbBranchIsAtomic ==
    /\ [][\A t \in Tasks :
            (last'.op = "eb_write" /\ last'.task = t
                /\ store[t].exists /\ store[t].status = "Completed") =>
                store'[t].status = "Completed"]_vars
    /\ [](\A t \in Tasks : ebNotifications[t] <= 1)

\* The rules of registry reg that are not the rule of task t.
OtherRules(reg, t) == {r \in reg : r.name # RuleName(t)}

\* C19: on an Insert record the handler decides on the new image.  When it
\* is Pending with a deadline in the future, it issues one schedule command
\* and no cancel, after which the registry holds exactly one rule named
\* RULE_NAME_PREFIX-taskId, firing at the deadline, with one target whose
\* payload is taken from the new image; the rules of other tasks are left
\* alone.  When it is not Pending, no registry command is issued.
C19_InsertDecision ==
    [][(last'.op = "process" /\ last'.fault = "none" /\ queue[1].eventName = "INSERT") =>
          LET rec == queue[1]
              t == rec.key
              own == {r \in rules' : r.name = RuleName(t)}
          IN  IF rec.new.status = "Pending"
              THEN rec.new.deadline > now =>
                     /\ last'.cmds = <<"schedule">>
                     /\ own = {[name |-> RuleName(t),
                                cron |-> CronExpression(rec.new.deadline),
                                targets |-> {[id |-> "ExpiryLambdaTarget",
                                              input |-> InputData(rec.new, t)]}]}
                     /\ OtherRules(rules', t) = OtherRules(rules, t)
              ELSE /\ last'.cmds = <<>>
                   /\ rules' = rules]_vars

C19_Witness ==
    /\ last.op = "process" /\ last.fault = "none"
    /\ last.rec.eventName = "INSERT"
    /\ last.rec.new.status = "Pending" /\ last.rec.new.deadline > now
    /\ last.cmds = <<"schedule">>
    /\ \E r \in rules : r.name = RuleName(last.rec.key) /\ r.targets # {}

C21_RemoveDecision ==
    [][(last'.op = "process" /\ queue[1].eventName = "REMOVE") =>
          last'.cmds = IF queue[1].old.status = "Pending" THEN <<"cancel">> ELSE <<>>]_vars

\* C22: schedule_expiry_event creates or modifies no trigger when the
\* deadline is not strictly later than the current time.  On an Insert of
\* such a Pending task the registry is left as it was; on a Modify from
\* Pending to Pending that moves the deadline to such a time the rule of
\* the task is cancelled and none is created, so the task has no rule,
\* and the rules of other tasks are left alone.
C22_PastDeadlineNotScheduled ==
    [][(last'.op = "process" /\ last'.fault = "none"
            /\ queue[1].new.status = "Pending" /\ queue[1].new.deadline <= now) =>
          LET rec == queue[1]
              t == rec.key
          IN  /\ rec.eventName = "INSERT" => rules' = rules
              /\ (rec.eventName = "MODIFY" /\ rec.old.status = "Pending"
                     /\ rec.old.deadline # rec.new.deadline) =>
                    /\ last'.cmds = <<"cancel", "schedule">>
                    /\ ~\E r \in rules' : r.name = RuleName(t)
                    /\ OtherRules(rules', t) = OtherRules(rules, t)]_vars

C22_Witness ==
    /\ last.op = "process" /\ last.fault = "none" /\ last.pre = "rule"
    /\ last.rec.eventName = "MODIFY"
    /\ last.rec.old.status = "Pending" /\ last.rec.new.status = "Pending"
    /\ last.rec.old.deadline # last.rec.new.deadline
    /\ last.rec.new.deadline <= now
    /\ ~\E r \in rules : r.name = RuleName(last.rec.key)

\* C23: redelivery is safe.  When the handler runs on a record it has
\* already acted upon, no registry call having failed, the registry after
\* the second run is the registry the first run left, whatever the type of
\* the record and however far the clock advanced in between.
C23_RedeliveryIsIdempotent ==
    [][(last'.op = "process" /\ last'.n = 1 /\ last'.fault = "none"
            /\ faults = 0 /\ queue[1].id \in handled) =>
          rules' = rules]_vars

\* C24: every queue message the router builds carries one change record
\* unmodified, has the record's eventID as its deduplication id, and has
\* the identifier of the record's task as its ordering-group id, so that
\* records of different tasks are in different groups.
C24_MessagePerTaskGroup ==
    [][last'.op = "route" =>
          \A i \in 1..last'.n :
              LET m == SqsEntry(stream[i])
              IN  /\ m.MessageBody = stream[i]
                  /\ m.MessageDeduplicationId = stream[i].id
                  /\ m.MessageGroupId = ToString(stream[i].key)
                  /\ \A j \in 1..last'.n :
                        stream[j].key # stream[i].key =>
                            SqsEntry(stream[j]).MessageGroupId # m.MessageGroupId]_vars

\* The payloads that lack one of the four fields.
IncompletePayloads == (SUBSET ExpiryPayloadFields) \ {ExpiryPayloadFields}

\* C25: an executor invocation whose payload lacks any of taskId, userId,
\* pk or sk is rejected without retry: the handler returns 400 without
\* raising, the table and its stream are left as they were, no invocation
\* stays in progress and no notification is published; for
\* expiry_handler.handler and for the EventBridge branch of
\* process_stream.handler.
C25_IncompletePayloadRejected ==
    [][\A payload \in IncompletePayloads, t \in Tasks :
          (\/ \E f \in {"none", "update_item", "publish"} : ExpiryHandlerEvent(payload, t, f)
           \/ \E f \in {"none", "get_item"}, desc \in BOOLEAN : EbEvent(payload, t, f, desc)) =>
              /\ last'.result = "400"
              /\ store' = store /\ stream' = stream
              /\ eb' = eb /\ inflight' = inflight
              /\ notifications' = notifications
              /\ ebNotifications' = ebNotifications]_vars

C25_Witness ==
    /\ last.op \in {"expire", "eb_read"} /\ last.result = "400"
    /\ \E t \in Tasks : IsPending(store[t]) /\ inflight[t] > 0

====
